---- MODULE Spec2Model ----
(***************************************************************************)
(* Wallet ledger and payment-transaction engine of the passenger app:      *)
(*   - the Fapshi webhook reconciler   (app/api/webhooks/fapshi/route.ts)   *)
(*   - the passenger-to-driver payment (app/api/payments/pay/route.ts)      *)
(*   - the recharge initiation         (app/api/payments/recharge/route.ts) *)
(*   - the Transaction collection      (lib/db/models/Transaction.ts)       *)
(* Every route handler is a process; one action is one awaited database or  *)
(* gateway operation together with the synchronous code that follows it up  *)
(* to the next await.  MongoDB applies each single operation atomically.    *)
(***************************************************************************)
EXTENDS Integers, Sequences, FiniteSets, Bags, TLC

\* ------------------------------------------------------------------ bounds
\* requests handled in one run, over the three routes
MaxRequests == 2
\* milliseconds Date.now() moves through
MaxClock == 1
\* the passenger's wallet before any recharge
InitWallet == 500050

\* handler instances of each route
Webhooks == 1..MaxRequests
Pays == 1..MaxRequests
Recharges == 1..MaxRequests

\* ------------------------------------------------------- program constants
MinPayment == 150
TxAmountMin == 1
TxAmountMax == 500000
RechargeMin == 100
RechargeMax == 5000

\* ------------------------------------------------------------ collections
Passengers == {"p1"}
\* a passenger whose document is no longer in the collection
ClosedAccount == "p0"
Drivers == {"d1", "d2"}
NoDriver == "none"
NoKey == <<>>
NoTrans == "none"
StoredPin == "1234"
NoPin == ""

\* Amounts are JavaScript Numbers, and the pay route takes Number(amount) with
\* no integer check: every amount and balance is counted in halves of a unit,
\* Units(n) being the whole number n.
Units(n) == n + n
IsWhole(amount) == amount % 2 = 0

\* Inputs of the requests (the amounts: 100, 150, 150.5 and 500001).
DriverIdInputs == Drivers \cup {"zz"}
PayAmountInputs == {Units(100), Units(150), Units(150) + 1, Units(500001)}
PinInputs == {"1234", "0000"}
\* rechargeSchema.amount is a string of digits
RechargeAmountInputs == {Units(50), Units(100)}
TransIds == {"T1", "T2", "T3"}
\* externalId = `recharge-${Date.now()}-${passengerId}`
ExternalId(ms, passengerId) == <<"recharge", ms, passengerId>>
\* Date.now() of the oldest request on record
FirstClock == 0 - 2
Keys == {ExternalId(ms, p) : ms \in FirstClock..MaxClock, p \in Passengers}
\* "" stands for a payload without a status field
\* body.amount of a webhook payload: the amount of the recharge, or another one
PayloadAmounts == {Units(RechargeMin), Units(RechargeMax)}
RawStatuses == {"successful", "FAILED", "pending", "weird", ""}

VARIABLES
    wallet,            \* Passenger.wallet, per passenger document
    availableBalance,  \* Driver.availableBalance, per driver document
    transactions,      \* the Transaction collection: the Recharge documents, _id = position
    payments,          \* the Transaction collection: the Payment documents (a bag: they
                       \* carry no externalId and no route reads or updates them)
    now,               \* Date.now()
    gatewaySent,       \* externalIds the gateway has received a deposit request for
    wh,                \* the webhook handlers in flight
    pay,               \* the pay handlers in flight
    rc,                \* the recharge handlers in flight
    credited,          \* per Transaction: how many $inc were applied for it
    rechargeRevision   \* which revision of the recharge route is deployed

vars == <<wallet, availableBalance, transactions, payments, now, gatewaySent, wh, pay, rc,
          credited, rechargeRevision>>

\* recharge/route.ts holds two revisions of POST: the first answers an exception
\* of the gateway call from the outer catch, the final one wraps the call in a
\* try of its own whose catch marks the Transaction Failed.
RechargeRevisions == {"first", "final"}

\* ------------------------------------------------------------ Transaction
NewTransaction(userId, userType, type, status, amount, externalId) ==
    [userId |-> userId, userType |-> userType, type |-> type, status |-> status,
     amount |-> amount, externalId |-> externalId, fapshiTransactionId |-> NoTrans]

\* schema: amount min 1, max 500000
AmountValid(amount) == amount >= Units(TxAmountMin) /\ amount <= Units(TxAmountMax)

\* unique sparse index on externalId
ExternalIdTaken_NoIndex(txs, key) == FALSE
ExternalIdTaken(txs, key) ==
    key # NoKey /\ \E i \in 1..Len(txs) : txs[i].externalId = key

\* unique sparse index on fapshiTransactionId: another document holds it
TransIdTaken(txs, id, transId) ==
    transId # NoTrans /\ \E i \in 1..Len(txs) : i # id /\ txs[i].fapshiTransactionId = transId

\* Transaction.findOne({ externalId }): the _id of the match, 0 when none
FindOneByExternalId(txs, key) ==
    IF \E i \in 1..Len(txs) : txs[i].externalId = key
    THEN CHOOSE i \in 1..Len(txs) :
             /\ txs[i].externalId = key
             /\ \A j \in 1..Len(txs) : txs[j].externalId = key => i <= j
    ELSE 0

\* ------------------------------------------------------ webhook: statuses
\* String(rawStatus).toLowerCase()
ToLowerCase(s) ==
    CASE s = "FAILED" -> "failed"
      [] s = "SUCCESSFUL" -> "successful"
      [] s = "Paid" -> "paid"
      [] OTHER -> s
NormalizedStatus(raw) == IF raw = "" THEN "" ELSE ToLowerCase(raw)
isSuccess(s) == s \in {"successful", "success", "completed", "approved", "paid"}
isFailed_OrUnrecognized(s) == ~isSuccess(s) /\ s \notin {"", "pending"}
isFailed(s) == s \in {"failed", "failure", "declined", "rejected", "cancelled", "canceled"}
isPending(s) == s \in {"pending", "processing", "initiated", "awaiting"}

\* ------------------------------------------------------------------- Init
IdleWebhook ==
    [pc |-> "idle", externalId |-> NoKey, status |-> "", transId |-> NoTrans,
     txId |-> 0, seen |-> "", resp |-> 0, concurrent |-> FALSE, amount |-> 0]
IdlePay ==
    [pc |-> "idle", driverId |-> NoDriver, amount |-> 0, pin |-> NoPin,
     pWallet |-> 0, dBal |-> 0, resp |-> 0, replay |-> FALSE]
IdleRecharge ==
    [pc |-> "idle", amount |-> 0, txId |-> 0, key |-> NoKey, outcome |-> "", resp |-> 0]

\* The ledger when the run starts: the passenger has made two recharges of the
\* minimum amount; the gateway accepted both, the webhook of the first has been
\* processed and the second awaits its webhook.
EarlierRecharges ==
    << [NewTransaction("p1", "Passenger", "Recharge", "Success", Units(RechargeMin),
                       ExternalId(FirstClock, "p1")) EXCEPT !.fapshiTransactionId = "T1"],
       [NewTransaction("p1", "Passenger", "Recharge", "Pending", Units(RechargeMin),
                       ExternalId(FirstClock + 1, "p1")) EXCEPT !.fapshiTransactionId = "T2"] >>

Init ==
    /\ wallet = [p \in Passengers |-> Units(InitWallet + RechargeMin)]
    /\ availableBalance = [d \in Drivers |-> 0]
    /\ transactions = EarlierRecharges
    /\ payments = EmptyBag
    /\ now = 0
    /\ gatewaySent = {EarlierRecharges[1].externalId, EarlierRecharges[2].externalId}
    /\ wh = [w \in Webhooks |-> IdleWebhook]
    /\ pay = [t \in Pays |-> IdlePay]
    /\ rc = [r \in Recharges |-> IdleRecharge]
    /\ credited = <<1, 0>>
    /\ rechargeRevision \in RechargeRevisions

\* The same ledger where the Recharge that awaits its webhook is of a
\* passenger whose document has since been removed from the collection.
ClosedAccountRecharges ==
    << EarlierRecharges[1],
       [NewTransaction(ClosedAccount, "Passenger", "Recharge", "Pending", Units(RechargeMin),
                       ExternalId(FirstClock + 1, ClosedAccount))
            EXCEPT !.fapshiTransactionId = "T2"] >>

ClosedAccountInit ==
    /\ wallet = [p \in Passengers |-> Units(InitWallet + RechargeMin)]
    /\ availableBalance = [d \in Drivers |-> 0]
    /\ transactions = ClosedAccountRecharges
    /\ payments = EmptyBag
    /\ now = 0
    /\ gatewaySent = {ClosedAccountRecharges[1].externalId, ClosedAccountRecharges[2].externalId}
    /\ wh = [w \in Webhooks |-> IdleWebhook]
    /\ pay = [t \in Pays |-> IdlePay]
    /\ rc = [r \in Recharges |-> IdleRecharge]
    /\ credited = <<1, 0>>
    /\ rechargeRevision \in RechargeRevisions

\* handlers that have been started, over the three routes
Started ==
    Cardinality({w \in Webhooks : wh[w].pc # "idle"})
    + Cardinality({t \in Pays : pay[t].pc # "idle"})
    + Cardinality({r \in Recharges : rc[r].pc # "idle"})

\* --------------------------------------------------------------- webhook
WebhookInFlight(w) == wh[w].pc \in {"inc", "save"}

\* POST up to and including Transaction.findOne and the checks that follow it
W_Find(w) ==
    /\ wh[w].pc = "idle"
    /\ Started < MaxRequests
    /\ \A v \in Webhooks : v < w => wh[v].pc # "idle"
    /\ \E key \in Keys \cup {NoKey} \cup {transactions[i].externalId : i \in 1..Len(transactions)},
          raw \in RawStatuses, transId \in TransIds,
          amount \in PayloadAmounts :
         LET status == NormalizedStatus(raw)
             id == IF key = NoKey \/ status = "" THEN 0
                   ELSE FindOneByExternalId(transactions, key)
             req == [IdleWebhook EXCEPT !.externalId = key, !.status = status,
                                        !.transId = transId, !.txId = id,
                                        !.seen = IF id = 0 THEN "" ELSE transactions[id].status,
                                        !.concurrent = \E v \in Webhooks : WebhookInFlight(v)]
         IN  wh' = [wh EXCEPT ![w] =
                 IF key = NoKey \/ status = ""
                 THEN [IdleWebhook EXCEPT !.pc = "done", !.resp = 400, !.externalId = key,
                                          !.concurrent = req.concurrent]
                 ELSE IF id = 0
                 THEN [IdleWebhook EXCEPT !.pc = "done", !.resp = 200, !.externalId = key,
                                          !.concurrent = req.concurrent]
                 ELSE IF transactions[id].status # "Pending"
                 THEN [req EXCEPT !.pc = "done", !.resp = 200, !.transId = NoTrans, !.status = ""]
                 ELSE IF isSuccess(status)
                 THEN [req EXCEPT !.pc = "inc", !.amount = amount]
                 ELSE IF isFailed(status)
                 THEN [req EXCEPT !.pc = "save"]
                 ELSE [req EXCEPT !.pc = "done", !.resp = 200, !.transId = NoTrans]]
    /\ UNCHANGED <<wallet, availableBalance, transactions, payments, now, gatewaySent, pay, rc, credited, rechargeRevision>>

\* the increment of { $inc: { wallet: transaction.amount } }
CreditAmount_FromPayload(tx, payloadAmount) == payloadAmount
CreditAmount(tx, payloadAmount) == tx.amount

\* whether Passenger.findOneAndUpdate({ _id: userId }, ...) finds a document
PassengerFound_Always(wallets, userId) == TRUE
PassengerFound(wallets, userId) == userId \in DOMAIN wallets

\* Passenger.findOneAndUpdate({ _id: transaction.userId }, { $inc: { wallet: amount } })
W_Inc(w) ==
    /\ wh[w].pc = "inc"
    /\ LET tx == transactions[wh[w].txId]
       IN  IF PassengerFound(wallet, tx.userId)
           THEN /\ wallet' = [wallet EXCEPT ![tx.userId] = @ + CreditAmount(tx, wh[w].amount)]
                /\ credited' = [credited EXCEPT ![wh[w].txId] = @ + 1]
                /\ wh' = [wh EXCEPT ![w].pc = "save"]
           ELSE /\ wh' = [wh EXCEPT ![w].pc = "done", ![w].resp = 500, ![w].transId = NoTrans,
                                      ![w].amount = 0]
                /\ UNCHANGED <<wallet, credited>>
    /\ UNCHANGED <<availableBalance, transactions, payments, now, gatewaySent, pay, rc, rechargeRevision>>

\* transaction.status = ...; transaction.fapshiTransactionId = ...; transaction.save()
W_Save(w) ==
    /\ wh[w].pc = "save"
    /\ LET id == wh[w].txId
           newStatus == IF isSuccess(wh[w].status) THEN "Success" ELSE "Failed"
       IN  IF TransIdTaken(transactions, id, wh[w].transId)
           THEN /\ wh' = [wh EXCEPT ![w].pc = "done", ![w].resp = 500, ![w].transId = NoTrans,
                                      ![w].amount = 0]
                /\ UNCHANGED transactions
           ELSE /\ transactions' = [transactions EXCEPT
                        ![id].status = newStatus,
                        ![id].fapshiTransactionId = wh[w].transId]
                /\ wh' = [wh EXCEPT ![w].pc = "done", ![w].resp = 200, ![w].transId = NoTrans,
                                      ![w].amount = 0]
    /\ UNCHANGED <<wallet, availableBalance, payments, now, gatewaySent, pay, rc, credited, rechargeRevision>>

\* -------------------------------------------------------------- recharge
\* rechargeSchema: 100 <= amount <= 5000
RechargeAmountValid(amount) == amount >= Units(RechargeMin) /\ amount <= Units(RechargeMax)

\* Transaction.findByIdAndUpdate(transactionId, { status: 'Failed' })
MarkFailed_AsSuccess(txs, id) == [txs EXCEPT ![id].status = "Success"]
MarkFailed(txs, id) == [txs EXCEPT ![id].status = "Failed"]

\* Transaction.create({ ..., status: 'Pending', amount, externalId })
PendingRecord_Unkeyed(passengerId, amount, key) ==
    NewTransaction(passengerId, "Passenger", "Recharge", "Pending", amount, NoKey)
PendingRecord(passengerId, amount, key) ==
    NewTransaction(passengerId, "Passenger", "Recharge", "Pending", amount, key)

\* POST up to and including Transaction.create of the Pending record
R_Create(r) ==
    /\ rc[r].pc = "idle"
    /\ Started < MaxRequests
    /\ \A q \in Recharges : q < r => rc[q].pc # "idle"
    /\ \E amount \in RechargeAmountInputs, p \in Passengers, ms \in now..MaxClock :
         LET key == ExternalId(ms, p)
         IN  /\ now' = IF RechargeAmountValid(amount) THEN ms ELSE now
             /\ IF ~RechargeAmountValid(amount)
                 THEN /\ rc' = [rc EXCEPT ![r] = [IdleRecharge EXCEPT !.pc = "done", !.amount = amount, !.resp = 400]]
                      /\ UNCHANGED <<transactions, credited>>
                 ELSE IF ExternalIdTaken(transactions, key)
                 THEN /\ rc' = [rc EXCEPT ![r] = [IdleRecharge EXCEPT !.pc = "done", !.amount = amount,
                                                                      !.key = key, !.resp = 500]]
                      /\ UNCHANGED <<transactions, credited>>
                 ELSE /\ transactions' = Append(transactions, PendingRecord(p, amount, key))
                      /\ credited' = Append(credited, 0)
                      /\ rc' = [rc EXCEPT ![r] = [IdleRecharge EXCEPT !.pc = "fetch", !.amount = amount,
                                                                      !.key = key,
                                                                      !.txId = Len(transactions) + 1]]
    /\ UNCHANGED <<wallet, availableBalance, payments, gatewaySent, wh, pay, rechargeRevision>>

\* fetch('https://api.fapshi.com/direct-pay', { ... externalId ... }) is sent
R_Fetch(r) ==
    /\ rc[r].pc = "fetch"
    /\ gatewaySent' = gatewaySent \cup {rc[r].key}
    /\ rc' = [rc EXCEPT ![r].pc = "response"]
    /\ UNCHANGED <<wallet, availableBalance, transactions, payments, now, wh, pay, credited, rechargeRevision>>

\* the gateway's answer: accepted with a transId, rejected (!ok), or the call
\* throws (fetch fails, or the body is not JSON); storing a transId another
\* Transaction holds throws as well
R_Response(r) ==
    /\ rc[r].pc = "response"
    /\ LET id == rc[r].txId
       IN  \E outcome \in {"ok", "rejected", "throw"}, transId \in TransIds :
             IF outcome = "ok" /\ ~TransIdTaken(transactions, id, transId)
             THEN /\ transactions' = [transactions EXCEPT ![id].fapshiTransactionId = transId]
                  /\ rc' = [rc EXCEPT ![r].pc = "done", ![r].outcome = outcome, ![r].resp = 200]
             ELSE /\ transactions' = IF outcome = "rejected" \/ rechargeRevision = "final"
                                      THEN MarkFailed(transactions, id)
                                      ELSE transactions
                  /\ rc' = [rc EXCEPT ![r].pc = "done", ![r].outcome = outcome, ![r].resp = 500]
    /\ UNCHANGED <<wallet, availableBalance, payments, now, gatewaySent, wh, pay, credited, rechargeRevision>>

\* ------------------------------------------------------------------- pay
\* passenger.comparePin(pin)
comparePin_Any(candidatePin) == TRUE
comparePin_Lenient(candidatePin) == candidatePin # NoPin
comparePin(candidatePin) == candidatePin = StoredPin

\* isNaN(paymentAmount) || paymentAmount < 150
PayAmountInvalid(amount) == amount < Units(MinPayment)

\* passenger.wallet < paymentAmount
InsufficientBalance_SignOnly(balance, amount) == balance < 0
InsufficientBalance_Never(balance, amount) == FALSE
InsufficientBalance(balance, amount) == balance < amount

\* the driver lookup: the driver found for the id, NoDriver when none
FindDriver_FirstDriver(driverId) == IF driverId \in Drivers THEN driverId ELSE "d1"
FindDriver(driverId) == IF driverId \in Drivers THEN driverId ELSE NoDriver

PayerOf(t) == CHOOSE p \in Passengers : TRUE

\* POST up to and including Passenger.findOne, the PIN and the balance checks
P_FindPassenger(t) ==
    /\ pay[t].pc = "idle"
    /\ Started < MaxRequests
    /\ \A u \in Pays : u < t => pay[u].pc # "idle"
    /\ \E driverId \in DriverIdInputs, amount \in PayAmountInputs, pin \in PinInputs :
         LET req == [IdlePay EXCEPT !.driverId = driverId, !.amount = amount, !.pin = pin,
                         !.replay = /\ comparePin(pin)
                                    /\ \E u \in Pays :
                                         /\ pay[u].pc = "done" /\ pay[u].resp = 200
                                         /\ pay[u].driverId = driverId
                                         /\ pay[u].amount = amount]
         IN  pay' = [pay EXCEPT ![t] =
                 IF PayAmountInvalid(amount)
                 THEN [IdlePay EXCEPT !.pc = "done", !.resp = 400, !.amount = amount]
                 ELSE IF ~comparePin(pin)
                 THEN [req EXCEPT !.pc = "done", !.resp = 401, !.replay = FALSE]
                 ELSE IF InsufficientBalance(wallet[PayerOf(t)], amount)
                 THEN [req EXCEPT !.pc = "done", !.resp = 400]
                 ELSE [req EXCEPT !.pc = "findDriver", !.pWallet = wallet[PayerOf(t)]]]
    /\ UNCHANGED <<wallet, availableBalance, transactions, payments, now, gatewaySent, wh, rc, credited, rechargeRevision>>

\* the driver lookup and the 404 that follows it
P_FindDriver(t) ==
    /\ pay[t].pc = "findDriver"
    /\ LET driver == FindDriver(pay[t].driverId)
       IN  pay' = [pay EXCEPT ![t] =
               IF driver = NoDriver
               THEN [@ EXCEPT !.pc = "done", !.resp = 404, !.pWallet = 0]
               ELSE [@ EXCEPT !.pc = "savePassenger", !.dBal = availableBalance[driver]]]
    /\ UNCHANGED <<wallet, availableBalance, transactions, payments, now, gatewaySent, wh, rc, credited, rechargeRevision>>

\* passenger.wallet -= paymentAmount; await passenger.save()
P_SavePassenger(t) ==
    /\ pay[t].pc = "savePassenger"
    /\ wallet' = [wallet EXCEPT ![PayerOf(t)] = pay[t].pWallet - pay[t].amount]
    /\ pay' = [pay EXCEPT ![t].pc = "saveDriver"]
    /\ UNCHANGED <<availableBalance, transactions, payments, now, gatewaySent, wh, rc, credited, rechargeRevision>>

\* driver.availableBalance += paymentAmount; await driver.save()
P_SaveDriver(t) ==
    /\ pay[t].pc = "saveDriver"
    /\ availableBalance' = [availableBalance EXCEPT ![pay[t].driverId] = pay[t].dBal + pay[t].amount]
    /\ pay' = [pay EXCEPT ![t].pc = "create1"]
    /\ UNCHANGED <<wallet, transactions, payments, now, gatewaySent, wh, rc, credited, rechargeRevision>>

\* Transaction.create({ userId: passenger._id, ... }) (debit record)
P_Create1(t) ==
    /\ pay[t].pc = "create1"
    /\ IF AmountValid(pay[t].amount)
       THEN /\ payments' = payments (+) SetToBag({
                  NewTransaction(PayerOf(t), "Passenger", "Payment", "Success", pay[t].amount, NoKey)})
            /\ pay' = [pay EXCEPT ![t].pc = "create2"]
       ELSE /\ pay' = [pay EXCEPT ![t].pc = "done", ![t].resp = 500,
                                    ![t].pWallet = 0, ![t].dBal = 0]
            /\ UNCHANGED payments
    /\ UNCHANGED <<wallet, availableBalance, transactions, now, gatewaySent, wh, rc, credited, rechargeRevision>>

\* Transaction.create({ userId: driver._id, ... }) (credit record) and the response
P_Create2(t) ==
    /\ pay[t].pc = "create2"
    /\ IF AmountValid(pay[t].amount)
       THEN /\ payments' = payments (+) SetToBag({
                  NewTransaction(pay[t].driverId, "Driver", "Payment", "Success", pay[t].amount, NoKey)})
            /\ pay' = [pay EXCEPT ![t].pc = "done", ![t].resp = 200,
                                    ![t].pWallet = 0, ![t].dBal = 0]
       ELSE /\ pay' = [pay EXCEPT ![t].pc = "done", ![t].resp = 500,
                                    ![t].pWallet = 0, ![t].dBal = 0]
            /\ UNCHANGED payments
    /\ UNCHANGED <<wallet, availableBalance, transactions, now, gatewaySent, wh, rc, credited, rechargeRevision>>

\* ------------------------------------------------------------------ Next
Next ==
    \/ \E w \in Webhooks : W_Find(w) \/ W_Inc(w) \/ W_Save(w)
    \/ \E r \in Recharges : R_Create(r) \/ R_Fetch(r) \/ R_Response(r)
    \/ \E t \in Pays : \/ P_FindPassenger(t) \/ P_FindDriver(t) \/ P_SavePassenger(t)
                       \/ P_SaveDriver(t) \/ P_Create1(t) \/ P_Create2(t)

Spec == Init /\ [][Next]_vars
ClosedAccountSpec == ClosedAccountInit /\ [][Next]_vars

\* ------------------------------------------------------------ accounting
RECURSIVE CreditedUpTo(_)
\* the amounts the webhook handlers have added to the wallets, over Transactions 1..n
CreditedUpTo(n) ==
    IF n = 0 THEN 0 ELSE credited[n] * transactions[n].amount + CreditedUpTo(n - 1)
CreditedTotal == CreditedUpTo(Len(transactions))

RECURSIVE PaidUpTo(_, _)
\* the amounts of the pay requests 1..n answered with success, to the drivers in ds
PaidUpTo(n, ds) ==
    IF n = 0 THEN 0
    ELSE (IF pay[n].pc = "done" /\ pay[n].resp = 200 /\ pay[n].driverId \in ds
          THEN pay[n].amount ELSE 0) + PaidUpTo(n - 1, ds)
PaidTotal == PaidUpTo(MaxRequests, Drivers)
SuccessfulPays == {t \in Pays : pay[t].pc = "done" /\ pay[t].resp = 200}

RECURSIVE CopiesOver(_, _)
CopiesOver(B, S) ==
    IF S = {} THEN 0
    ELSE LET x == CHOOSE x \in S : TRUE IN CopiesIn(x, B) + CopiesOver(B, S \ {x})
\* how many Payment documents with status Success the users of a type have
PaymentRecords(userType) ==
    CopiesOver(payments, {x \in BagToSet(payments) :
                             /\ x.type = "Payment" /\ x.status = "Success"
                             /\ x.userType = userType})

\* no pay request is between its first read and its response, and none ended in an error
PaysSettled == \A t \in Pays : pay[t].pc \in {"idle", "done"} /\ pay[t].resp # 500
WebhooksSettled == \A w \in Webhooks : wh[w].pc \in {"idle", "done"}

\* ------------------------------------------------------------------ claims
\* C1: concurrent success deliveries for one externalId increment the wallet
\* at most once for the transaction (no delivery having failed with a 500).
C1_NoDoubleCreditUnderRaces ==
    (\A w \in Webhooks : wh[w].resp # 500)
        => \A i \in 1..Len(transactions) : credited[i] <= 1

\* C2: a success delivery that is not concurrent with any other delivery and
\* finds the Recharge Pending leaves it Success and credited exactly once; a
\* delivery that finds it not Pending is answered 200.
C2_SequentialDeliveryCreditsOnce ==
    (\A v \in Webhooks : ~wh[v].concurrent)
        => \A w \in Webhooks :
             /\ (/\ wh[w].pc = "done" /\ wh[w].seen = "Pending" /\ isSuccess(wh[w].status)
                 /\ transactions[wh[w].txId].status # "Failed")
                    => /\ transactions[wh[w].txId].status = "Success"
                       /\ credited[wh[w].txId] = 1
             /\ (wh[w].pc = "done" /\ wh[w].seen \in {"Success", "Failed"})
                    => wh[w].resp = 200

\* C3: once the pay requests have been answered (no webhook delivery
\* meanwhile), the wallet is lower by the amounts answered with success, each
\* driver is higher by the amounts paid to it, and each success has its two
\* Payment records.
C3_SuccessMovesExactlyAmount ==
    (PaysSettled /\ \A w \in Webhooks : wh[w].pc = "idle") =>
        /\ \A p \in Passengers : wallet[p] = Units(InitWallet) + CreditedTotal - PaidTotal
        /\ \A d \in Drivers : availableBalance[d] = PaidUpTo(MaxRequests, {d})
        /\ PaymentRecords("Passenger") = Cardinality(SuccessfulPays)
        /\ PaymentRecords("Driver") = Cardinality(SuccessfulPays)

RECURSIVE SumOver(_, _)
SumOver(f, S) ==
    IF S = {} THEN 0 ELSE LET x == CHOOSE x \in S : TRUE IN f[x] + SumOver(f, S \ {x})

\* C4: transfers conserve money: with every pay request answered, the wallets
\* and the drivers' balances add up to the initial total plus the recharges.
C4_Conservation ==
    PaysSettled =>
        SumOver(wallet, Passengers) + SumOver(availableBalance, Drivers)
            = Units(InitWallet) * Cardinality(Passengers) + CreditedTotal

\* C5: no wallet and no driver balance is ever negative.
C5_BalancesNonNegative ==
    /\ \A p \in Passengers : wallet[p] >= 0
    /\ \A d \in Drivers : availableBalance[d] >= 0

\* C5 witness: a pay request for more than the wallet holds was turned down.
C5_Witness ==
    \E t \in Pays, p \in Passengers :
        /\ pay[t].pc = "done" /\ pay[t].resp = 400
        /\ ~PayAmountInvalid(pay[t].amount) /\ wallet[p] < pay[t].amount
        /\ SuccessfulPays # {}

\* C6: no step of a pay request that repeats an already successful one
\* changes a balance or adds a Transaction.
C6_ReplayChangesNothing ==
    [][\A t \in Pays :
          (pay[t].replay /\ pay'[t] # pay[t])
              => /\ wallet' = wallet
                 /\ availableBalance' = availableBalance
                 /\ transactions' = transactions
                 /\ payments' = payments]_vars

\* C7: a pay request that ends in an error (no other pay request running)
\* leaves the balances and the Transaction log as they were.
C7_TransferAllOrNothing ==
    \A t \in Pays :
        (/\ pay[t].pc = "done" /\ pay[t].resp = 500
         /\ \A u \in Pays \ {t} : pay[u].pc = "idle")
            => /\ \A p \in Passengers : wallet[p] = Units(InitWallet) + CreditedTotal
               /\ \A d \in Drivers : availableBalance[d] = 0
               /\ PaymentRecords("Passenger") = 0 /\ PaymentRecords("Driver") = 0

\* C8: a Transaction that is Success or Failed keeps its status (shown with a
\* single webhook delivery beside the recharge requests).
C8_TerminalStatusIsFinal ==
    [][(\A w \in Webhooks : w > 1 => wh[w].pc = "idle")
          => \A i \in 1..Len(transactions) :
                transactions[i].status # "Pending"
                    => transactions'[i].status = transactions[i].status]_vars

\* C9: with no delivery in progress, no Recharge that has been credited is
\* still Pending.
C9_CreditedImpliesSettled ==
    WebhooksSettled =>
        \A i \in 1..Len(transactions) :
            credited[i] >= 1 => transactions[i].status # "Pending"

\* C10: no two Transactions share an externalId, and a recharge request whose
\* key was taken created nothing: the record of the key is the first request's.
C10_ExternalIdUnique ==
    /\ \A i, j \in 1..Len(transactions) :
          (transactions[i].externalId # NoKey /\ transactions[i].externalId = transactions[j].externalId)
              => i = j
    /\ \A r \in Recharges :
          rc[r].txId # 0 =>
              /\ transactions[rc[r].txId].externalId = rc[r].key
              /\ transactions[rc[r].txId].amount = rc[r].amount
              /\ \A q \in Recharges \ {r} : rc[q].txId # rc[r].txId

\* C10 witness: a recharge request was rejected because its key was taken.
C10_Witness ==
    \E r \in Recharges :
        /\ rc[r].pc = "done" /\ rc[r].resp = 500 /\ rc[r].txId = 0
        /\ ExternalIdTaken(transactions, rc[r].key)

\* C11: a webhook delivery whose externalId matches no Transaction is answered
\* 200 at once and changes no balance and no Transaction.
C11_UnknownKeyAcknowledged ==
    [][\A w \in Webhooks :
          (/\ wh[w].pc = "idle" /\ wh'[w].pc # "idle"
           /\ wh'[w].externalId # NoKey
           /\ ~ExternalIdTaken(transactions, wh'[w].externalId))
              => /\ wh'[w].pc = "done" /\ wh'[w].resp = 200
                 /\ UNCHANGED <<wallet, availableBalance, transactions, payments>>]_vars

C13_GatewayFailureMarksFailed ==
    /\ [][\A r \in Recharges :
             (/\ rc[r].pc = "response" /\ rc'[r].pc = "done"
              /\ rc'[r].outcome \in {"rejected", "throw"})
                 => /\ transactions'[rc[r].txId].status = "Failed"
                    /\ rc'[r].resp = 500]_vars
    /\ [](\A r \in Recharges :
             (rc[r].pc = "done" /\ rc[r].outcome \in {"rejected", "throw"})
                 => transactions[rc[r].txId].status # "Pending")

\* C14: no step of a recharge request (create, gateway call, accepted,
\* rejected, exception) changes a wallet or a driver balance, and none leaves a
\* Transaction Success that was not Success before it.
C14_RechargeNeverSettles ==
    [][(rc' # rc) =>
          /\ wallet' = wallet
          /\ availableBalance' = availableBalance
          /\ \A i \in 1..Len(transactions') :
                transactions'[i].status = "Success"
                    => i <= Len(transactions) /\ transactions[i].status = "Success"]_vars

\* C14 witness: the gateway accepted a recharge request; its Transaction is
\* still Pending and has not been credited.
C14_Witness ==
    \E r \in Recharges :
        /\ rc[r].pc = "done" /\ rc[r].resp = 200
        /\ transactions[rc[r].txId].status = "Pending"
        /\ credited[rc[r].txId] = 0

\* C15: with only pay requests handled and all of them answered without an
\* error, the payer's wallet is its initial balance minus the amounts answered
\* with success and each driver's balance is the sum of the amounts paid to it;
\* and the debit of a transfer that goes on to succeed is applied to a balance
\* that covers its amount.
C15_ConcurrentTransfersSerialized ==
    /\ []((/\ PaysSettled
           /\ \A w \in Webhooks : wh[w].pc = "idle"
           /\ \A r \in Recharges : rc[r].pc = "idle")
              => /\ \A p \in Passengers :
                       wallet[p] = Units(InitWallet + RechargeMin) - PaidTotal
                 /\ \A d \in Drivers : availableBalance[d] = PaidUpTo(MaxRequests, {d}))
    /\ [][\A t \in Pays :
             (/\ pay[t].pc = "savePassenger" /\ pay'[t].pc = "saveDriver"
              /\ AmountValid(pay[t].amount))
                 => wallet[PayerOf(t)] >= pay[t].amount]_vars

\* C16: with one pay request answered with success and the webhook deliveries
\* finished, the wallet is its initial balance plus every credit the webhook
\* applied minus the amount paid: no credit is lost to the transfer.
C16_CreditNotLostToTransfer ==
    (/\ Cardinality({t \in Pays : pay[t].pc # "idle"}) = 1
     /\ SuccessfulPays # {}
     /\ WebhooksSettled /\ \E w \in Webhooks : wh[w].pc = "done")
        => \A p \in Passengers : wallet[p] = Units(InitWallet) + CreditedTotal - PaidTotal

\* C17: every webhook delivery is answered 200 or 500, and a delivery whose
\* key was not found or whose Transaction was already processed is answered 200.
C17_WebhookAnswers200Or5xx ==
    \A w \in Webhooks :
        wh[w].pc = "done"
            => /\ wh[w].resp \in {200, 500}
               /\ (wh[w].txId = 0 \/ wh[w].seen \in {"Success", "Failed"}) => wh[w].resp = 200

\* C18: a pay request whose amount is below 150 or is not a whole number is
\* answered 400 by the step that receives it, which changes no balance and
\* creates no Transaction.
C18_InvalidAmountRejected ==
    /\ [](\A t \in Pays :
             (/\ pay[t].pc # "idle"
              /\ (PayAmountInvalid(pay[t].amount) \/ ~IsWhole(pay[t].amount))
              /\ comparePin(pay[t].pin) \/ pay[t].pin = NoPin)
                 => pay[t].pc = "done" /\ pay[t].resp = 400)
    /\ [][\A t \in Pays :
             (/\ pay[t].pc = "idle" /\ pay'[t].pc # "idle"
              /\ (PayAmountInvalid(pay'[t].amount) \/ ~IsWhole(pay'[t].amount)))
                 => UNCHANGED <<wallet, availableBalance, transactions, payments>>]_vars

\* C19: a pay request (valid amount, correct PIN) for more than the wallet
\* holds when the passenger is read is answered 400 by that step, which changes
\* no balance and creates no Transaction.
C19_InsufficientFundsRejected ==
    [][\A t \in Pays :
          (/\ pay[t].pc = "idle" /\ pay'[t].pc # "idle"
           /\ ~PayAmountInvalid(pay'[t].amount) /\ comparePin(pay'[t].pin)
           /\ pay'[t].amount > wallet[PayerOf(t)])
              => /\ pay'[t].pc = "done" /\ pay'[t].resp = 400
                 /\ UNCHANGED <<wallet, availableBalance, transactions, payments>>]_vars

\* C19 witness: such a request has been turned down, the wallet still below
\* its amount.
C19_Witness ==
    \E t \in Pays :
        /\ pay[t].pc = "done" /\ pay[t].resp = 400
        /\ comparePin(pay[t].pin) /\ ~PayAmountInvalid(pay[t].amount)
        /\ pay[t].driverId # NoDriver
        /\ pay[t].amount > wallet[PayerOf(t)]

C22_StatusNeverAnError ==
    \A w \in Webhooks :
        /\ wh[w].pc = "inc" => isSuccess(wh[w].status) /\ ~isFailed(wh[w].status)
        /\ wh[w].pc = "save" => isSuccess(wh[w].status) \/ isFailed(wh[w].status)
        /\ (wh[w].pc = "done" /\ wh[w].externalId # NoKey) => wh[w].resp # 400

\* C23: a delivery with a failure status that found its Transaction Pending
\* ends with that Transaction Failed, and none of its steps changes a balance.
C23_FailureMarksFailed ==
    [][\A w \in Webhooks :
        (isFailed(wh[w].status) /\ wh[w].seen = "Pending" /\ wh'[w] # wh[w])
            => /\ wallet' = wallet /\ availableBalance' = availableBalance
               /\ wh'[w].pc = "done" => transactions'[wh[w].txId].status = "Failed"]_vars

C25_DeliveryOrderIrrelevant ==
    /\ [](\A i \in 1..Len(transactions) : credited[i] <= 1)
    /\ [][wh' # wh =>
            \A i \in 1..Len(transactions) :
                transactions'[i].status # transactions[i].status
                    => transactions[i].status = "Pending"]_vars

\* ---------------------------------------------------------------- fairness
\* A handler that has started runs each of its awaited database steps: the
\* event loop resumes every continuation that is ready. No fairness is stated
\* for the arrival of new requests nor for R_Response: the route sets no
\* timeout on its fetch, so nothing in the program makes the gateway's answer
\* (or an error in its place) arrive.
FairSpec ==
    /\ Spec
    /\ \A w \in Webhooks : WF_vars(W_Inc(w)) /\ WF_vars(W_Save(w))
    /\ \A r \in Recharges : WF_vars(R_Fetch(r))
    /\ \A t \in Pays : /\ WF_vars(P_FindDriver(t)) /\ WF_vars(P_SavePassenger(t))
                       /\ WF_vars(P_SaveDriver(t)) /\ WF_vars(P_Create1(t))
                       /\ WF_vars(P_Create2(t))

\* C26: once a recharge request has sent its gateway call, then unless the
\* gateway answers (accepting or rejecting it), the Transaction created for
\* the request eventually leaves Pending.
C26_TimedOutRechargeFails ==
    \A r \in Recharges :
        (rc[r].pc = "response")
            ~> \/ rc[r].pc = "done" /\ rc[r].outcome \in {"ok", "rejected"}
               \/ rc[r].txId # 0 /\ transactions[rc[r].txId].status # "Pending"

\* C27: no pay request reads the passenger's wallet while another transfer is
\* part-way through its writes (payer debited and driver not yet credited, or
\* balances moved and the two Payment records not yet both created).
C27_NoPartialTransferObserved ==
    [][\A t, u \in Pays :
        (t # u /\ pay[u].pc = "idle" /\ pay'[u].pc = "findDriver")
            => pay[t].pc \notin {"saveDriver", "create1", "create2"}]_vars

\* C28: a pay request whose driverId matches no driver is answered 404 by
\* its driver lookup, and neither that step nor the step before it (the
\* passenger lookup and the checks) changes a balance or creates a record.
C28_UnknownDriverRejected ==
    [][\A t \in Pays :
        (/\ pay[t].pc \in {"idle", "findDriver"} /\ pay'[t] # pay[t]
         /\ pay'[t].driverId \notin Drivers)
            => /\ pay[t].pc = "findDriver" => pay'[t].pc = "done" /\ pay'[t].resp = 404
               /\ wallet' = wallet /\ availableBalance' = availableBalance
               /\ payments' = payments /\ transactions' = transactions]_vars

\* C28 witness: a request with a correct PIN, a valid amount the wallet
\* covers and an unknown driverId has been answered 404.
C28_Witness ==
    \E t \in Pays :
        /\ pay[t].pc = "done" /\ pay[t].resp = 404
        /\ pay[t].driverId = "zz" /\ pay[t].pin = StoredPin
        /\ payments = EmptyBag

\* C29: the step of a success delivery that credits adds to the wallet of the
\* Transaction's user the amount stored on the Transaction, whatever amount
\* the payload carries, and changes no other balance.
C29_CreditIsStoredAmount ==
    [][\A w \in Webhooks :
        (wh[w].pc = "inc" /\ wh'[w].pc = "save")
            => LET tx == transactions[wh[w].txId]
               IN  /\ wallet' = [wallet EXCEPT ![tx.userId] = @ + tx.amount]
                   /\ availableBalance' = availableBalance]_vars

\* C29 witness: a delivery whose payload amount is not the stored amount has
\* credited its Transaction.
C29_Witness ==
    \E w \in Webhooks :
        /\ wh[w].pc = "save" /\ isSuccess(wh[w].status)
        /\ wh[w].amount # transactions[wh[w].txId].amount
        /\ credited[wh[w].txId] >= 1

\* C30: the crediting step of a success delivery for a Transaction whose
\* user has no passenger document answers 500 and changes no Transaction and
\* no balance, so the Transaction is still Pending for the next delivery.
C30_MissingAccountKeepsPending ==
    [][\A w \in Webhooks :
        (wh[w].pc = "inc" /\ wh'[w] # wh[w]
         /\ transactions[wh[w].txId].userId = ClosedAccount)
            => /\ wh'[w].pc = "done" /\ wh'[w].resp = 500
               /\ transactions' = transactions
               /\ wallet' = wallet /\ availableBalance' = availableBalance
               /\ credited' = credited]_vars

\* C30 witness: a success delivery for the closed account's Recharge has been
\* answered 500 and the Recharge is still Pending.
C30_Witness ==
    \E w \in Webhooks :
        /\ wh[w].pc = "done" /\ wh[w].resp = 500 /\ isSuccess(wh[w].status)
        /\ wh[w].txId # 0
        /\ transactions[wh[w].txId].userId = ClosedAccount
        /\ transactions[wh[w].txId].status = "Pending"
        /\ credited[wh[w].txId] = 0
====
